---- MODULE Spec2Model ----
(***************************************************************************)
(* Model of dataset/dbengine.py: the DBengine wrapper, its batch dispatch  *)
(* (_apply_func over a multiprocessing Pool or a sequential map) and the   *)
(* two per-task functions _execute_query and _execute_query_w_backup.      *)
(***************************************************************************)
EXTENDS Integers, Sequences, FiniteSets, TLC

\* ---------------------------------------------------------------- bounds
\* Longest batch handed to execute_queries / execute_queries_w_backup.
MaxQueries == 2
\* Largest pool_size argument tried.
MaxPool == 2
\* Most facade calls (single statements, DDL, clean_up) made on one engine.
MaxCalls == 2
\* Most DBengine instances constructed, one after another, on the database.
MaxEngines == 2

\* ------------------------------------------------------- inputs and oracle
\* Python's None (an absent backup query).
None == "None"

\* pool_size arguments; the constructor accepts any integer.
PoolSizes == 0..MaxPool
\* timeout arguments (milliseconds); the constructor accepts any integer.
\* 2 lies between the two running times of Duration, 4 above both.
Timeouts == {-1, 0, 2, 4}

\* Query texts of execute_queries.
PlainQueries == {"fast", "slow", "bad"}
\* (query, backup) pairs of execute_queries_w_backup.
BackupPairs ==
    { <<"fast", None>>, <<"fast", "cheap">>,
      <<"slow", None>>, <<"slow", "">>, <<"slow", "cheap">>,
      <<"slow", "slow">>, <<"slow", "bad">>, <<"bad", "cheap">> }

\* Query texts of execute_query ("mk" creates an object the engine does not
\* track) and of create_db_table_from_query; the one table and index name.
SingleQueries == {"fast", "bad", "mk"}
TableQueries == {"fast", "bad"}
TableNames == {"t"}
IndexNames == {"idx"}
AttrLists == {<<"a">>, <<>>}

SeqsUpTo(S, n) == UNION { [1..k -> S] : k \in 0..n }

\* The database: the rows a statement yields when it runs to completion.
Rows(q) ==
    CASE q = "fast"  -> <<"a">>
      [] q = "slow"  -> <<"b", "c">>
      [] q = "cheap" -> <<"f">>
      [] q = "mk"    -> <<"made">>
      [] OTHER       -> <<>>

\* The database: the objects of the connection's namespace after statement q
\* ran to completion there.
Effect(q, objs) == IF q = "mk" THEN objs \cup {"u"} ELSE objs

\* The database: how long a statement runs (milliseconds).
Duration(q) == IF q = "slow" THEN 3 ELSE 1

\* The database: statements it rejects ("" is the empty statement).
Invalid(q) == q \in {"bad", "", None}

\* What task code sees of one task: nothing yet, rows, or a raised exception.
NoOutcome == [kind |-> "none", rows |-> <<>>, err |-> "", via |-> ""]
Returned(rows, via) == [kind |-> "rows", rows |-> rows, err |-> "", via |-> via]
Raised(err, via) == [kind |-> "error", rows |-> <<>>, err |-> err, via |-> via]

\* conn.execute(q).fetchall() on a connection whose statement_timeout is to
\* (0: the server default, no timeout): the rows, or the driver's exception.
\* A cancelled statement raises the QueryCanceledError that the except clause
\* of _execute_query_w_backup names.
Execute(q, to, via) ==
    IF Invalid(q) THEN Raised("ProgrammingError", via)
    ELSE IF to > 0 /\ Duration(q) > to THEN Raised("QueryCanceledError", via)
    ELSE Returned(Rows(q), via)

VARIABLES
    pool_size,   \* DBengine.__init__ argument
    timeout,     \* self.timeout
    phase,       \* "new" | "init_failed" | "idle" | "batch" | "returned" | "raised"
                 \* | "closed" (clean_up was called)
    mode,        \* "" | "plain" | "w_backup": the batch method called
    queries,     \* the batch as the caller passed it
    st,          \* per task: "queued" | "set" | "primary" | "backup" | "done"
    conn,        \* per task: index into conns of its connection (0: none)
    out,         \* per task: its outcome
    conns,       \* every connection ever opened
    exc,         \* the exception the batch call raises (first one stored)
    results,     \* the list the batch call returned
    now,         \* the wall clock, as time.time() reads it
    dbschema,    \* self.dbschema (<<>> before generate_hash)
    schemas,     \* the database: namespace identifier -> the objects in it
    engines,     \* earlier DBengine instances: [ns, live]
    calls        \* this engine's facade calls so far: [op, raised, ret]

vars == <<pool_size, timeout, phase, mode, queries, st, conn, out, conns, exc, results,
          now, dbschema, schemas, engines, calls>>

N == Len(queries)

\* No exception stored yet.
NoExc == [idx |-> 0, err |-> ""]

\* ---------------------------------------------------------- connections
\* Mutant of FreshConn: the task takes the connection opened last instead of
\* one of its own.
ReusedConn == IF conns = <<>> THEN Len(conns) + 1 ELSE Len(conns)

\* sql.create_engine(...).connect() makes a connection of its own: the next
\* entry of conns.
FreshConn == Len(conns) + 1

\* Mutant of SearchPath: the connection is left on the server's default path.
DefaultPath(ns) == <<"public">>

\* connect_args={'options': '-csearch_path={}'.format(self.dbschema)}
SearchPath(ns) == ns

\* A connection just opened for owner (0: the facade engine) with namespace ns
\* in its connect_args; statement_timeout is the server default, 0.
Opened(owner, ns) ==
    [owner |-> owner, open |-> TRUE, stmt_timeout |-> 0, log |-> <<>>,
     search_path |-> SearchPath(ns)]

\* Mutant of Connect: the timeout travels in the connect options, so every
\* connection of a task has it from the start.
ConnectWithTimeout(owner) ==
    Append(conns, [Opened(owner, dbschema) EXCEPT !.stmt_timeout = timeout])

\* A task's engine.connect(): a new connection, owned by task owner.
Connect(owner) == Append(conns, Opened(owner, dbschema))

\* conn.execute(stmt): the statement is issued on connection c.
Issue(cs, c, stmt) == [cs EXCEPT ![c].log = Append(@, stmt)]

\* conn.close()
Close(cs, c) == [cs EXCEPT ![c].open = FALSE]

\* Mutant of CloseOnExit: conn.close() follows the statements without a with
\* block, so an exception skips it.
CloseOnReturn(cs, c, o) == IF o.kind = "error" THEN cs ELSE Close(cs, c)

\* Leaving `with engine.connect() as conn` with outcome o: the connection is
\* closed whether the block returned or raised.
CloseOnExit(cs, c, o) == Close(cs, c)

\* ------------------------------------------------------------ DBengine
\* self._pool = Pool(pool_size) if pool_size > 1 else None
HasPool == pool_size > 1

\* generate_hash: "temp_" and ten hex digits of the SHA1 of str(time.time()),
\* a function of the clock reading alone (the digest prefix is taken to differ
\* for the few readings tried).
generate_hash(t) == <<"temp_", t>>

\* Mutant of CreateSchemaRaises: CREATE SCHEMA IF NOT EXISTS.
CreateSchemaIfNotExists(ns) == FALSE

\* CreateSchema(ns) is rejected by the database when ns exists.
CreateSchemaRaises(ns) == ns \in DOMAIN schemas

\* The facade engine's engine.execute(stmt): a connection of the engine is
\* taken, the statement issued and the connection released, also on error.
EngineExecute(cs, ns, stmt) ==
    Close(Issue(Append(cs, Opened(0, ns)), Len(cs) + 1, stmt), Len(cs) + 1)

\* The body of __init__ at clock reading t: no argument is validated; the
\* identifier is drawn and the schema created through the facade engine. A
\* rejected CREATE SCHEMA leaves __init__ by its exception.
Construct(cs, t) ==
    LET ns == generate_hash(t) IN
    /\ dbschema' = ns
    /\ conns' = EngineExecute(cs, ns, "CREATE SCHEMA")
    /\ IF CreateSchemaRaises(ns)
       THEN phase' = "init_failed" /\ schemas' = schemas
       ELSE phase' = "idle" /\ schemas' = (ns :> {}) @@ schemas

DBengine_init ==
    /\ phase = "new"
    /\ Construct(conns, now)
    /\ UNCHANGED <<now, engines, calls, pool_size, timeout, mode, queries, st, conn, out, exc, results>>

\* Pool.map's chunksize (ceil(len / (4 * workers))); the sequential
\* list(map(...)) is one chunk holding the whole collection.
Chunksize(n) ==
    IF n = 0 THEN 0
    ELSE IF ~HasPool THEN n
    ELSE (n + 4 * pool_size - 1) \div (4 * pool_size)

NumChunks == IF N = 0 THEN 0 ELSE (N + Chunksize(N) - 1) \div Chunksize(N)
ChunkFirst(c) == (c - 1) * Chunksize(N) + 1
ChunkLast(c) == IF c * Chunksize(N) < N THEN c * Chunksize(N) ELSE N
ChunkOf(i) == (i - 1) \div Chunksize(N) + 1

\* Processes that run tasks: the Pool's workers, or the caller itself.
NumWorkers == IF HasPool THEN pool_size ELSE 1

ChunkTaken(c) == st[ChunkFirst(c)] # "queued"
\* A chunk ends at its first exception or after its last item.
ChunkFailed(c) == \E i \in ChunkFirst(c)..ChunkLast(c) : out[i].kind = "error"
ChunkEnded(c) == ChunkFailed(c) \/ st[ChunkLast(c)] = "done"
BusyWorkers == Cardinality({c \in 1..NumChunks : ChunkTaken(c) /\ ~ChunkEnded(c)})

\* Mutant of MayStart: every task is dispatched at once, whatever the pool.
MayStartAtOnce(i) == phase = "batch" /\ st[i] = "queued"

\* Task i may start: a free worker takes i's chunk (chunks are handed out in
\* order), or the worker holding i's chunk got i-1's result.
MayStart(i) ==
    /\ phase = "batch"
    /\ st[i] = "queued"
    /\ IF i = ChunkFirst(ChunkOf(i))
       THEN /\ BusyWorkers < NumWorkers
            /\ \A c \in 1..(ChunkOf(i) - 1) : ChunkTaken(c)
       ELSE st[i - 1] = "done" /\ out[i - 1].kind = "rows"

\* _apply_func is entered with the enumerated collection.
Submit(m, qs) ==
    /\ phase = "idle"
    /\ phase' = "batch"
    /\ mode' = m
    /\ queries' = qs
    /\ st' = [i \in 1..Len(qs) |-> "queued"]
    /\ conn' = [i \in 1..Len(qs) |-> 0]
    /\ out' = [i \in 1..Len(qs) |-> NoOutcome]
    /\ UNCHANGED <<now, dbschema, schemas, engines, calls, pool_size, timeout, conns, exc, results>>

execute_queries ==
    \E qs \in SeqsUpTo(PlainQueries, MaxQueries) : Submit("plain", qs)

execute_queries_w_backup ==
    \E qs \in SeqsUpTo(BackupPairs, MaxQueries) : Submit("w_backup", qs)

\* A task function returns or raises: its connection is closed by the with
\* block, and the first exception of the batch is the one kept.
Finish(i, o, cs) ==
    /\ st' = [st EXCEPT ![i] = "done"]
    /\ out' = [out EXCEPT ![i] = o]
    /\ conns' = CloseOnExit(cs, conn[i], o)
    /\ exc' = IF o.kind = "error" /\ exc = NoExc THEN [idx |-> i, err |-> o.err] ELSE exc

\* ------------------------------------------------------ _execute_query
_execute_query_connect(i) ==
    /\ mode = "plain"
    /\ MayStart(i)
    /\ conns' = Connect(i)
    /\ conn' = [conn EXCEPT ![i] = FreshConn]
    /\ st' = [st EXCEPT ![i] = "primary"]
    /\ UNCHANGED <<now, dbschema, schemas, engines, calls, pool_size, timeout, phase, mode, queries, out, exc, results>>

_execute_query_run(i) ==
    /\ mode = "plain"
    /\ phase = "batch"
    /\ st[i] = "primary"
    /\ Finish(i, Execute(queries[i], conns[conn[i]].stmt_timeout, "primary"),
              Issue(conns, conn[i], queries[i]))
    /\ UNCHANGED <<now, dbschema, schemas, engines, calls, pool_size, timeout, phase, mode, queries, conn, results>>

\* --------------------------------------------- _execute_query_w_backup
_execute_query_w_backup_connect(i) ==
    /\ mode = "w_backup"
    /\ MayStart(i)
    /\ conns' = Connect(i)
    /\ conn' = [conn EXCEPT ![i] = FreshConn]
    /\ st' = [st EXCEPT ![i] = "set"]
    /\ UNCHANGED <<now, dbschema, schemas, engines, calls, pool_size, timeout, phase, mode, queries, out, exc, results>>

\* conn.execute("SET statement_timeout to %d;" % timeout): the server takes 0
\* as "no timeout" and rejects a negative value.
_execute_query_w_backup_set(i) ==
    /\ mode = "w_backup"
    /\ phase = "batch"
    /\ st[i] = "set"
    /\ LET cs == Issue(conns, conn[i], "SET statement_timeout") IN
       IF timeout < 0
       THEN /\ Finish(i, Raised("DataError", "set"), cs)
            /\ UNCHANGED <<now, dbschema, schemas, engines, calls, pool_size, timeout, phase, mode, queries, conn, results>>
       ELSE /\ conns' = [cs EXCEPT ![conn[i]].stmt_timeout = timeout]
            /\ st' = [st EXCEPT ![i] = "primary"]
            /\ UNCHANGED <<now, dbschema, schemas, engines, calls, pool_size, timeout, phase, mode, queries, conn, out, exc, results>>

\* Mutants of QueryOf, BackupOf and NoBackup: the pair's members mixed up, and
\* a test for None alone.
QuerySwapped(pair) == pair[2]
BackupSwapped(pair) == pair[1]
NoBackupIsNone(b) == b = None

\* query = args[1][0]; query_backup = args[1][1]
QueryOf(pair) == pair[1]
BackupOf(pair) == pair[2]

\* `not query_backup`: None and the empty string both count as no backup.
NoBackup(b) == b = None \/ b = ""

\* Mutant of IsCanceled: a bare `except:` around the primary query.
AnyError(o) == o.kind = "error"

\* except psycopg2.extensions.QueryCanceledError
IsCanceled(o) == o.kind = "error" /\ o.err = "QueryCanceledError"

_execute_query_w_backup_run(i) ==
    /\ mode = "w_backup"
    /\ phase = "batch"
    /\ st[i] = "primary"
    /\ LET query == QueryOf(queries[i])
           query_backup == BackupOf(queries[i])
           cs == Issue(conns, conn[i], query)
           o == Execute(query, conns[conn[i]].stmt_timeout, "primary")
       IN IF IsCanceled(o)
          THEN IF NoBackup(query_backup)
               THEN /\ Finish(i, Returned(<<>>, "empty"), cs)
                    /\ UNCHANGED <<now, dbschema, schemas, engines, calls, pool_size, timeout, phase, mode, queries, conn, results>>
               ELSE /\ conns' = cs
                    /\ st' = [st EXCEPT ![i] = "backup"]
                    /\ UNCHANGED <<now, dbschema, schemas, engines, calls, pool_size, timeout, phase, mode, queries, conn, out, exc, results>>
          ELSE /\ Finish(i, o, cs)
               /\ UNCHANGED <<now, dbschema, schemas, engines, calls, pool_size, timeout, phase, mode, queries, conn, results>>

\* Mutant of _execute_query_w_backup_backup: a failed backup is run again
\* (a few times) on the same connection.
_execute_query_w_backup_backup_retry(i) ==
    /\ mode = "w_backup"
    /\ phase = "batch"
    /\ st[i] = "backup"
    /\ LET query_backup == BackupOf(queries[i])
           o == Execute(query_backup, conns[conn[i]].stmt_timeout, "backup")
           cs == Issue(conns, conn[i], query_backup)
       IN IF o.kind = "error" /\ Len(cs[conn[i]].log) < 4
          THEN conns' = cs /\ UNCHANGED <<st, out, exc>>
          ELSE Finish(i, o, cs)
    /\ UNCHANGED <<now, dbschema, schemas, engines, calls, pool_size, timeout, phase, mode, queries, conn, results>>

_execute_query_w_backup_backup(i) ==
    /\ mode = "w_backup"
    /\ phase = "batch"
    /\ st[i] = "backup"
    /\ LET query_backup == BackupOf(queries[i]) IN
       Finish(i, Execute(query_backup, conns[conn[i]].stmt_timeout, "backup"),
              Issue(conns, conn[i], query_backup))
    /\ UNCHANGED <<now, dbschema, schemas, engines, calls, pool_size, timeout, phase, mode, queries, conn, results>>

\* ----------------------------------------------------------- _apply_func
\* The list map builds: task i's return value at position i.
Collect == [i \in 1..N |-> out[i].rows]

\* The map call ends once every chunk has ended (list(map(...)) has one chunk
\* and ends at its first exception; Pool.map waits for the chunks still
\* running): it returns the list of task results in submission order, or
\* raises the stored exception.
_apply_func_return ==
    /\ phase = "batch"
    /\ \A c \in 1..NumChunks : ChunkEnded(c)
    /\ IF exc = NoExc
       THEN /\ results' = Collect
            /\ phase' = "returned"
       ELSE /\ results' = results
            /\ phase' = "raised"
    /\ UNCHANGED <<now, dbschema, schemas, engines, calls, pool_size, timeout, mode, queries, st, conn, out, conns, exc>>

\* ------------------------------------------------------- facade and teardown
\* The instance exists (its constructor returned) and the caller holds it
\* outside a batch call.
Callable == phase \in {"idle", "returned", "raised", "closed"}

\* What a facade call leaves in the caller's hands.
Called(op, arg, o, c) ==
    Append(calls, [op |-> op, arg |-> arg, raised |-> o.kind = "error",
                   ret |-> o.rows, conn |-> c])

\* conn = self.engine.connect(); ...; conn.close(), with nothing between that
\* catches: the close is reached only when no statement raised.
CloseAtEnd(cs, c, o) == IF o.kind = "error" THEN cs ELSE Close(cs, c)

\* The facade's engine.connect().
FacadeConnect == Append(conns, Opened(0, dbschema))

\* execute_query(query): one statement on a connection of the facade engine,
\* which sets no statement timeout.
execute_query ==
    /\ phase = "idle"
    /\ Len(calls) < MaxCalls
    /\ \E query \in SingleQueries :
         LET o == Execute(query, 0, "facade")
             cs == Issue(FacadeConnect, FreshConn, query)
         IN /\ conns' = CloseAtEnd(cs, FreshConn, o)
            /\ schemas' = IF o.kind = "error" THEN schemas
                          ELSE [schemas EXCEPT ![dbschema] = Effect(query, @)]
            /\ calls' = Called("execute_query", query, o, FreshConn)
    /\ UNCHANGED <<now, dbschema, engines, pool_size, timeout, phase, mode, queries, st, conn, out, exc, results>>

\* The index create_db_index builds on a table (one name per table here).
IndexOn(table) == "idx"

\* DROP TABLE IF EXISTS "name": the table goes, and its index with it.
DropTable(objs, name) == objs \ {name, IndexOn(name)}

\* Mutant of AfterFailedCreate: both statements in one transaction, rolled
\* back when the create fails.
RolledBack(before, dropped) == before

\* The namespace when CREATE TABLE AS failed after the drop was committed.
AfterFailedCreate(before, dropped) == dropped

\* create_db_table_from_query(name, query): drop, then create, each its own
\* statement on one connection; returns True.
create_db_table_from_query ==
    /\ phase = "idle"
    /\ Len(calls) < MaxCalls
    /\ \E name \in TableNames, query \in TableQueries :
         LET before == schemas[dbschema]
             dropped == DropTable(before, name)
             o == Execute(query, 0, "facade")
             cs == Issue(Issue(FacadeConnect, FreshConn, "DROP TABLE IF EXISTS"),
                         FreshConn, "CREATE TABLE AS")
         IN /\ conns' = CloseAtEnd(cs, FreshConn, o)
            /\ schemas' = [schemas EXCEPT ![dbschema] =
                             IF o.kind = "error"
                             THEN AfterFailedCreate(before, dropped)
                             ELSE dropped \cup {name}]
            /\ calls' = Called("create_db_table_from_query", name,
                               IF o.kind = "error" THEN o
                               ELSE Returned(<<TRUE>>, "facade"), FreshConn)
    /\ UNCHANGED <<now, dbschema, engines, pool_size, timeout, phase, mode, queries, st, conn, out, exc, results>>

\* CREATE INDEX name ON "table" ("a","b",...): rejected when the table is
\* missing, the index name is taken or the attribute list is empty.
CreateIndex(objs, name, table, attr_list) ==
    IF table \notin objs \/ name \in objs \/ attr_list = <<>>
    THEN Raised("ProgrammingError", "facade")
    ELSE Returned(<<>>, "facade")

create_db_index ==
    /\ phase = "idle"
    /\ Len(calls) < MaxCalls
    /\ \E name \in IndexNames, table \in TableNames, attr_list \in AttrLists :
         LET o == CreateIndex(schemas[dbschema], name, table, attr_list)
             cs == Issue(FacadeConnect, FreshConn, "CREATE INDEX")
         IN /\ conns' = CloseAtEnd(cs, FreshConn, o)
            /\ schemas' = IF o.kind = "error" THEN schemas
                          ELSE [schemas EXCEPT ![dbschema] = @ \cup {name}]
            /\ calls' = Called("create_db_index", name, o, FreshConn)
    /\ UNCHANGED <<now, dbschema, engines, pool_size, timeout, phase, mode, queries, st, conn, out, exc, results>>

\* Mutants of DropSchemaRaises: DROP SCHEMA IF EXISTS, and a drop without
\* CASCADE, which the database refuses while the schema holds objects.
DropSchemaIfExists(ns) == FALSE
DropSchemaRestrict(ns) == ns \notin DOMAIN schemas \/ schemas[ns] # {}

\* DropSchema(ns, cascade=True) is rejected only when ns does not exist.
DropSchemaRaises(ns) == ns \notin DOMAIN schemas

\* The database without namespace ns and everything in it.
Without(ns) == [n \in DOMAIN schemas \ {ns} |-> schemas[n]]

\* clean_up: the drop goes through the facade engine; nothing catches.
clean_up ==
    /\ Callable
    /\ Len(calls) < MaxCalls
    /\ LET o == IF DropSchemaRaises(dbschema)
                THEN Raised("ProgrammingError", "facade")
                ELSE Returned(<<>>, "facade")
       IN /\ conns' = EngineExecute(conns, dbschema, "DROP SCHEMA CASCADE")
          /\ schemas' = IF o.kind = "error" THEN schemas ELSE Without(dbschema)
          /\ calls' = Called("clean_up", "", o, FreshConn)
    /\ phase' = "closed"
    /\ UNCHANGED <<now, dbschema, engines, pool_size, timeout, mode, queries, st, conn, out, exc, results>>

\* This instance as the database and the caller have seen it: the identifier
\* it drew, the clock reading it drew it at, whether its constructor
\* returned, and whether a clean_up of it has returned.
ThisEngine ==
    [ns |-> dbschema, at |-> now,
     ok |-> phase \notin {"new", "init_failed"},
     dropped |-> \E k \in 1..Len(calls) :
                    calls[k].op = "clean_up" /\ ~calls[k].raised]

\* The caller is done with this instance (cleaned up or not) and constructs
\* the next one against the same database; the clock has moved on, or not.
DBengine_next ==
    /\ phase \in {"idle", "closed", "init_failed"}
    /\ Len(engines) + 1 < MaxEngines
    /\ engines' = Append(engines, ThisEngine)
    /\ \E t \in now..MaxEngines :
         /\ now' = t
         /\ Construct(<<>>, t)
    /\ calls' = <<>>
    /\ UNCHANGED <<pool_size, timeout, mode, queries, st, conn, out, exc, results>>

Init ==
    /\ pool_size \in PoolSizes
    /\ timeout \in Timeouts
    /\ phase = "new"
    /\ mode = ""
    /\ queries = <<>>
    /\ st = <<>>
    /\ conn = <<>>
    /\ out = <<>>
    /\ conns = <<>>
    /\ exc = NoExc
    /\ results = <<>>
    /\ now = 1
    /\ dbschema = <<>>
    /\ schemas = <<>>
    /\ engines = <<>>
    /\ calls = <<>>

Next ==
    \/ DBengine_init
    \/ execute_queries
    \/ execute_queries_w_backup
    \/ \E i \in 1..N : _execute_query_connect(i)
    \/ \E i \in 1..N : _execute_query_run(i)
    \/ \E i \in 1..N : _execute_query_w_backup_connect(i)
    \/ \E i \in 1..N : _execute_query_w_backup_set(i)
    \/ \E i \in 1..N : _execute_query_w_backup_run(i)
    \/ \E i \in 1..N : _execute_query_w_backup_backup(i)
    \/ _apply_func_return
    \/ clean_up

Spec == Init /\ [][Next]_vars

\* The instance's life without batches: construction, the facade's single
\* statements and DDL, teardown, and the next instance on the same database.
LifeNext ==
    \/ DBengine_init
    \/ execute_query
    \/ create_db_table_from_query
    \/ create_db_index
    \/ clean_up
    \/ DBengine_next

LifeSpec == Init /\ [][LifeNext]_vars

\* ================================================================ properties
Tasks == 1..N
BatchOver == phase \in {"returned", "raised"}
\* Task i holds an open connection and is running statements on it.
Executing(i) == st[i] \in {"set", "primary", "backup"}
\* The text of task i's primary query and of its backup, as submitted.
Primary(i) == IF mode = "plain" THEN queries[i] ELSE queries[i][1]
Fallback(i) == IF mode = "plain" THEN None ELSE queries[i][2]
\* The database cancels q under the engine's timeout / q ends before it.
TimesOut(q) == ~Invalid(q) /\ timeout > 0 /\ Duration(q) > timeout
EndsInTime(q) == ~Invalid(q) /\ timeout > 0 /\ Duration(q) < timeout
\* The statements issued on task i's connection, in order.
LogOf(i) == conns[conn[i]].log

\* The engine was built with arguments the documentation allows.
ValidConfig == pool_size >= 1 /\ timeout > 0

\* C1: for every pool size >= 1, every batch call returns a list of exactly N
\* entries whose entry i is the result of the i-th submitted task, whatever
\* the order of execution.
C1_BatchReturnsOrderedResults ==
    (ValidConfig /\ BatchOver) =>
        /\ phase = "returned"
        /\ Len(results) = N
        /\ \A i \in Tasks : st[i] = "done" /\ results[i] = out[i].rows

\* C2: a failing task does not stop its siblings: every other task still runs
\* to its outcome and the batch call returns a result collection, not raises.
C2_FailureIsolated ==
    (ValidConfig /\ BatchOver) =>
        \A i, j \in Tasks :
            (i # j /\ out[i].kind = "error") =>
                /\ st[j] = "done"
                /\ out[j].kind # "none"
                /\ phase = "returned"

\* C3: in execute_queries_w_backup a task whose primary query is cancelled by
\* the statement timeout and whose backup is None or empty yields the empty
\* list for its index and raises nothing: a batch call that raises, raises the
\* exception of another task.
C3_TimeoutWithoutBackupIsEmpty ==
    \A i \in Tasks :
        (mode = "w_backup" /\ st[i] = "done" /\ TimesOut(Primary(i))
            /\ Fallback(i) \in {None, ""}) =>
            /\ out[i] = Returned(<<>>, "empty")
            /\ LogOf(i) = <<"SET statement_timeout", Primary(i)>>
            /\ phase = "returned" => results[i] = <<>>
            /\ exc.idx # i
            /\ phase = "raised" => \E j \in Tasks \ {i} : out[j].kind = "error"

C3_Witness ==
    /\ phase = "returned"
    /\ \E i, j \in Tasks :
        /\ i # j
        /\ TimesOut(Primary(i)) /\ Fallback(i) = None
        /\ TimesOut(Primary(j)) /\ Fallback(j) = ""

\* C4: a task whose primary query is cancelled by the statement timeout and
\* whose backup is present runs the backup on the connection that ran the
\* primary, and a result of the task is exactly the backup's rows: it never
\* leaves by the primary's return or by the empty-list return.
C4_TimeoutRunsBackupOnSameConnection ==
    \A i \in Tasks :
        (mode = "w_backup" /\ st[i] = "done" /\ TimesOut(Primary(i))
            /\ Fallback(i) \notin {None, ""}) =>
            /\ LogOf(i) = <<"SET statement_timeout", Primary(i), Fallback(i)>>
            /\ \A c \in 1..Len(conns) : conns[c].owner = i => c = conn[i]
            /\ out[i].via = "backup"
            /\ out[i].kind = "rows" => out[i].rows = Rows(Fallback(i))
            /\ out[i].kind = "error" => (Invalid(Fallback(i)) \/ TimesOut(Fallback(i)))
            /\ phase = "returned" => results[i] = Rows(Fallback(i))

C4_Witness ==
    /\ phase = "returned"
    /\ \E i \in Tasks :
        /\ TimesOut(Primary(i))
        /\ Fallback(i) = "cheap"
        /\ results[i] = <<"f">>

\* C5: a query that ends before the timeout yields the same result without a
\* timeout (_execute_query) and under the deadline (_execute_query_w_backup,
\* with or without a backup): its rows, unchanged, and the backup is not run.
C5_TimeoutTransparentToFastQueries ==
    \A i \in Tasks :
        (st[i] = "done" /\ EndsInTime(Primary(i))) =>
            /\ out[i] = Returned(Rows(Primary(i)), "primary")
            /\ mode = "plain" => LogOf(i) = <<Primary(i)>>
            /\ mode = "w_backup" => LogOf(i) = <<"SET statement_timeout", Primary(i)>>
            /\ phase = "returned" => results[i] = Rows(Primary(i))

C5_Witness ==
    /\ mode = "w_backup"
    /\ phase = "returned"
    /\ \E i, j \in Tasks :
        /\ i # j
        /\ EndsInTime(Primary(i)) /\ Fallback(i) = None
        /\ EndsInTime(Primary(j)) /\ Fallback(j) = "cheap"

\* C6: a timeout <= 0 or a pool_size < 1 is rejected when the engine is
\* constructed, before any connection is opened or any statement is issued.
C6_InvalidConfigurationRejected ==
    (timeout <= 0 \/ pool_size < 1) => (phase = "new" /\ conns = <<>>)

\* C7: every task opens a connection of its own, and no connection is used by
\* two tasks, executing concurrently or not.
C7_ConnectionPerTask ==
    /\ \A i \in Tasks : conn[i] # 0 => conns[conn[i]].owner = i
    /\ \A i \in Tasks : (conn[i] = 0) = (st[i] = "queued")
    /\ \A i, j \in Tasks : (i # j /\ conn[i] # 0 /\ conn[j] # 0) => conn[i] # conn[j]
    /\ \A i, j \in Tasks : (i # j /\ Executing(i) /\ Executing(j)) => conn[i] # conn[j]

C7_Witness ==
    \E i, j \in Tasks :
        /\ i # j
        /\ Executing(i) /\ Executing(j)
        /\ conns[conn[i]].open /\ conns[conn[j]].open

\* C8: at every moment of a batch the number of executing tasks is at most
\* pool_size (stated for a positive timeout, so that pool_size alone decides).
C8_AtMostPoolSizeExecuting ==
    timeout > 0 => Cardinality({i \in Tasks : Executing(i)}) <= pool_size

\* The outcome of one task run on its own, from the documented behaviour of the
\* two modes (C9 compares every pool size against it).
Alone(i) ==
    LET q == Primary(i)
        b == Fallback(i)
    IN IF mode = "plain"
       THEN (IF Invalid(q) THEN "error" ELSE "rows") :> Rows(q)
       ELSE IF timeout < 0 \/ Invalid(q) THEN "error" :> <<>>
       ELSE IF ~TimesOut(q) THEN "rows" :> Rows(q)
       ELSE IF b \in {None, ""} THEN "rows" :> <<>>
       ELSE IF Invalid(b) \/ TimesOut(b) THEN "error" :> <<>>
       ELSE "rows" :> Rows(b)
AloneOk(i) == DOMAIN Alone(i) = {"rows"}

\* C9: with pool_size = 1 the batch runs strictly in submission order, task
\* i+1 not starting before task i has finished and closed its connection, and
\* the batch call ends as it does with any other pool size: it returns exactly
\* when every task alone would return, and then the list of those results.
C9_PoolSizeOneSequential ==
    /\ pool_size = 1 =>
        \A i, j \in Tasks :
            (j < i /\ st[i] # "queued") => (st[j] = "done" /\ ~conns[conn[j]].open)
    /\ BatchOver =>
        /\ (phase = "returned") = (\A i \in Tasks : AloneOk(i))
        /\ phase = "returned" => results = [i \in Tasks |-> Alone(i)["rows"]]

C9_Witness ==
    /\ pool_size = 1
    /\ phase = "batch"
    /\ N = MaxQueries
    /\ st[1] = "done"
    /\ Executing(N)

\* C10: a task that ended, by success, by timeout or by an exception, has
\* closed the connection it opened, and after the batch call no task
\* connection is open.
C10_ConnectionClosedOnEveryExit ==
    /\ \A i \in Tasks : st[i] = "done" => (conn[i] # 0 /\ ~conns[conn[i]].open)
    /\ BatchOver => \A c \in 1..Len(conns) : ~conns[c].open

C10_Witness ==
    /\ phase = "raised"
    /\ pool_size > 1
    /\ \E i, j \in Tasks :
        /\ out[i].kind = "error"
        /\ out[j].via \in {"empty", "backup"}
        /\ out[j].kind = "rows"

\* ------------------------------------------------ lifecycle vocabulary
FacadeOps == {"execute_query", "create_db_table_from_query", "create_db_index"}
\* The instance is between a constructor that returned and its clean_up.
Live == phase \in {"idle", "batch", "returned", "raised"}
\* Every instance constructed on the database so far, in order.
AllEngines == Append(engines, ThisEngine)
Built == { k \in 1..Len(AllEngines) : AllEngines[k].ok }
\* The k-th facade call was a clean_up / the first clean_up of this instance.
IsCleanUp(k) == calls[k].op = "clean_up"
FirstCleanUp(k) == IsCleanUp(k) /\ \A j \in 1..(k - 1) : ~IsCleanUp(j)
\* How often the timeout was set on a connection with statement log.
SetCount(log) == Cardinality({ k \in 1..Len(log) : log[k] = "SET statement_timeout" })
Connected(i) == st[i] # "queued"

\* C11: each single-statement facade operation runs on a connection of its
\* own that is closed when the call ends, whether the statement succeeded or
\* raised.
C11_FacadeConnectionClosedOnEveryExit ==
    \A k \in 1..Len(calls) :
        calls[k].op \in FacadeOps =>
            /\ conns[calls[k].conn].owner = 0
            /\ \A j \in 1..Len(calls) : j # k => calls[j].conn # calls[k].conn
            /\ ~conns[calls[k].conn].open

\* C12: between construction and clean_up exactly one namespace exists for
\* the instance, its identifier does not change, and every connection opened
\* through the instance, the facade's and each batch worker's, has that
\* namespace as its search path.
C12_OneNamespacePerInstance ==
    /\ [](Live => /\ DOMAIN schemas = {dbschema}
                  /\ \A c \in 1..Len(conns) : conns[c].search_path = dbschema)
    /\ [][phase # "new" => dbschema' = dbschema]_vars

C12_Witness ==
    /\ phase = "batch"
    /\ \E c \in 1..Len(conns) : conns[c].owner = 0
    /\ \E i \in Tasks : Executing(i) /\ conns[conn[i]].open

\* C13 as stated: instances constructed one after another on the same
\* database have pairwise distinct namespace identifiers.
C13_IdentifiersPairwiseDistinct ==
    \A i, j \in Built : i # j => AllEngines[i].ns # AllEngines[j].ns

\* C13, amended: the identifier follows the clock reading alone, so instances
\* built at different readings differ in it, and two instances that drew the
\* same identifier are never both between construction and clean_up.
C13_NoTwoLiveEnginesShareNamespace ==
    \A i, j \in Built :
        i # j =>
          /\ AllEngines[i].at # AllEngines[j].at => AllEngines[i].ns # AllEngines[j].ns
          /\ AllEngines[i].ns = AllEngines[j].ns
                => AllEngines[i].dropped \/ AllEngines[j].dropped

C13_Witness ==
    \E i, j \in Built :
        /\ i < j
        /\ AllEngines[i].ns = AllEngines[j].ns
        /\ AllEngines[i].dropped /\ ~AllEngines[j].dropped

\* C14: the first clean_up of an instance succeeds whatever the namespace
\* holds, after clean_up the namespace and all its objects are gone, and an
\* instance constructed later starts with a namespace holding nothing.
C14_TeardownRemovesEverything ==
    /\ \A k \in 1..Len(calls) :
          /\ IsCleanUp(k) => dbschema \notin DOMAIN schemas
          /\ FirstCleanUp(k) => ~calls[k].raised
    /\ phase = "idle" /\ calls = <<>> => schemas[dbschema] = {}

C14_Witness ==
    /\ Len(calls) = 2
    /\ calls[1].op = "execute_query" /\ calls[1].arg = "mk" /\ ~calls[1].raised
    /\ IsCleanUp(2)
    /\ engines # <<>>

\* C15: the namespace of every instance whose constructor returned has been
\* dropped by the time the caller is done with the instance, also when
\* single statements or DDL calls on it raised.
C15_NamespaceDroppedWhenDone ==
    \A k \in 1..Len(engines) : engines[k].ok => engines[k].dropped

\* C16: a clean_up that finds the namespace already gone, as a second
\* clean_up of the same instance does, raises to the caller.
C16_TeardownErrorsSurface ==
    \A k \in 1..Len(calls) :
        IsCleanUp(k) /\ ~FirstCleanUp(k) => calls[k].raised /\ calls[k].ret = <<>>

C16_Witness ==
    /\ Len(calls) = 2
    /\ IsCleanUp(1) /\ ~calls[1].raised
    /\ IsCleanUp(2) /\ calls[2].raised

\* C17: in a task with backup, an error of the primary or of the backup that
\* is not the timeout's cancellation ends the task with that error; it never
\* becomes the empty result, and after such an error of the primary the
\* backup is not run.
C17_OtherErrorsPropagate ==
    \A i \in Tasks :
        mode = "w_backup" /\ st[i] = "done" =>
          /\ Len(LogOf(i)) >= 2 /\ Invalid(Primary(i))
                => /\ out[i] = Raised("ProgrammingError", "primary")
                   /\ Len(LogOf(i)) = 2
          /\ Len(LogOf(i)) = 3 /\ Invalid(Fallback(i))
                => out[i] = Raised("ProgrammingError", "backup")
          /\ out[i].via = "empty" => TimesOut(Primary(i))

C17_Witness ==
    \E i \in Tasks :
        /\ mode = "w_backup" /\ st[i] = "done"
        /\ Invalid(Primary(i)) /\ ~NoBackup(Fallback(i))
        /\ out[i].kind = "error"
        /\ \E j \in Tasks : st[j] = "done" /\ Len(LogOf(j)) = 3 /\ Invalid(Fallback(j))

\* C18: create_db_table_from_query issues the drop and then the create on
\* its connection; when the create raised, the call raised and the table,
\* also one that existed before the call, is absent.
C18_FailedCreateLeavesTableAbsent ==
    \A k \in 1..Len(calls) :
        calls[k].op = "create_db_table_from_query" =>
          /\ conns[calls[k].conn].log = <<"DROP TABLE IF EXISTS", "CREATE TABLE AS">>
          /\ k = Len(calls) /\ calls[k].raised
                => calls[k].arg \notin schemas[dbschema]
          /\ k = Len(calls) /\ ~calls[k].raised
                => calls[k].arg \in schemas[dbschema] /\ calls[k].ret = <<TRUE>>

C18_Witness ==
    /\ Len(calls) = 2
    /\ calls[1].op = "create_db_table_from_query" /\ ~calls[1].raised
    /\ calls[2].op = "create_db_table_from_query" /\ calls[2].raised
    /\ calls[1].arg = calls[2].arg

\* C19: a task with backup sets the statement timeout once, as the first
\* statement on its connection, before the primary and not again before the
\* backup; a task of the plain batch never sets it, its connection keeps no
\* timeout and its query is never cancelled.
C19_TimeoutSetOnceBeforePrimary ==
    \A i \in Tasks :
        Connected(i) =>
          /\ mode = "w_backup" /\ st[i] = "set" => LogOf(i) = <<>>
          /\ mode = "w_backup" /\ st[i] # "set"
                => /\ SetCount(LogOf(i)) = 1
                   /\ LogOf(i)[1] = "SET statement_timeout"
          /\ mode = "plain"
                => /\ SetCount(LogOf(i)) = 0
                   /\ conns[conn[i]].stmt_timeout = 0
                   /\ out[i].err # "QueryCanceledError"

C19_Witness ==
    /\ timeout > 0
    /\ \E i \in Tasks :
          /\ mode = "w_backup" /\ st[i] = "done"
          /\ Len(LogOf(i)) = 3 /\ out[i].via = "backup"

\* C20: a task with backup runs the primary at most once and the backup at
\* most once, the backup only after the timeout cancelled the primary; a
\* backup that fails or is cancelled ends the task with its error; no task
\* runs more than two queries.
C20_RetryBounded ==
    \A i \in Tasks :
        mode = "w_backup" /\ Connected(i) =>
          /\ Len(LogOf(i)) - SetCount(LogOf(i)) <= 2
          /\ Len(LogOf(i)) >= 2 => LogOf(i)[2] = Primary(i)
          /\ Len(LogOf(i)) >= 3
                => /\ LogOf(i)[3] = Fallback(i)
                   /\ TimesOut(Primary(i))
                   /\ st[i] = "done"
                   /\ Invalid(Fallback(i)) \/ TimesOut(Fallback(i))
                         => out[i].kind = "error" /\ out[i].via = "backup"
          /\ st[i] = "backup" => Len(LogOf(i)) = 2

C20_Witness ==
    \E i \in Tasks :
        /\ mode = "w_backup" /\ st[i] = "done"
        /\ Len(LogOf(i)) = 3
        /\ TimesOut(Primary(i)) /\ TimesOut(Fallback(i))
        /\ out[i] = Raised("QueryCanceledError", "backup")

====
